---- MODULE Spec2Model ----
(***************************************************************************)
(* Model of slizzy: the command line driver (main.py: parse_args, main,    *)
(* slizzy) and the slider adapter (slider/slider.py: fetch, fetch_info,    *)
(* normalize, select, slider).                                             *)
(*                                                                         *)
(* One run of the program is one behaviour: Init chooses the command line, *)
(* the upstream servers and the search collaborator answer one request per *)
(* step, chosen by \E from small sets.                                     *)
(***************************************************************************)
EXTENDS Integers, Sequences, FiniteSets, TLC

\* ------------------------------------------------------------------ bounds
MaxTracks   == 2   \* tracks on the command line
MaxEntries  == 2   \* raw records in one slider result page
MaxAttempts == 3   \* requests one retrying loop may issue in the model
MaxPages    == 2   \* documents the search collaborator yields per search
MaxMp3co    == 1   \* downloads the mp3co adapter returns

\* ------------------------------------------------------- program constants
OkStatus == 200    \* the only status fetch and fetch_info accept

\* Python's None, where a number is expected
NoValue == -1

\* the duration given with -d, in seconds
GivenDurations == {180}

\* what beatport.get_metadata finds in one page: 0 for no duration
PageDurations == {0, 180}

all_modules == {"slider", "mp3co", "zippy"}

\* ------------------------------------------------------------- sequences
RECURSIVE SeqsUpTo(_, _)
SeqsUpTo(S, n) ==
  IF n = 0 THEN {<<>>}
  ELSE LET shorter == SeqsUpTo(S, n - 1)
       IN  shorter \cup {Append(s, x) : s \in {t \in shorter : Len(t) = n - 1}, x \in S}

Range(s) == {s[i] : i \in 1..Len(s)}

\* ----------------------------------------------------------- command line
\* flags: the adapter flags in the order the caller wrote them (no repeats)
FlagLists == {f \in SeqsUpTo(all_modules, 3) : Cardinality(Range(f)) = Len(f)}

\* "absent": no -d; "invalid": time.from_str raises; "given": a duration
ArgDurations == {"absent", "invalid", "given"}

\* a track text either parses (TRUE) or makes Track() raise (FALSE)
TrackLists == {t \in SeqsUpTo(BOOLEAN, MaxTracks) : Len(t) >= 1}

\* ------------------------------------------------------- upstream: slider
Statuses   == {200, 404}
Durations  == {178, 240}
Titles     == {"Artist - Title", "Unrelated"}

\* one record of the "audios" lists
RawRecords == [duration : Durations, tit_art : Titles]

\* kind of a response: "neterr" requests.get raises; otherwise the body is
\*  "int"     JSON integer (slider's error code),
\*  "invalid" not JSON (json.loads raises),
\*  "missing" a JSON object that lacks "audios", or a record that lacks one
\*            of the fields id, ext, duration, tit_art,
\*  "audios"  a result body, recs its records in iteration order
BodyKinds == {"int", "invalid", "missing", "audios"}

FetchResponses ==
  {[status |-> 0, kind |-> "neterr", recs |-> <<>>]}
  \cup {[status |-> s, kind |-> "int", recs |-> <<>>] : s \in Statuses \ {OkStatus}}
  \cup {[status |-> OkStatus, kind |-> k, recs |-> <<>>] : k \in BodyKinds \ {"audios"}}
  \cup {[status |-> OkStatus, kind |-> "audios", recs |-> r] : r \in SeqsUpTo(RawRecords, MaxEntries)}

NoResponse == [status |-> 0, kind |-> "none", recs |-> <<>>]

\* bitrates a candidate may have: 0, one below and one within the tolerance
Bitrates == {0, 64, 320}

\* bitrates the metadata pages of the server give: 0 (not ready yet) and a
\* usable one
PageBitrates == {0, 320}

\* the size line the server sends along with bitrate b
SizeOf(b) == IF b = 0 THEN <<5, "Mb">> ELSE <<9, "Mb">>

\* response of the metadata page: "parse": the lines do not parse; "data": a
\* bitrate line and a size line
InfoResponses ==
  {[status |-> 0, kind |-> "neterr", bitrate |-> 0, size |-> <<>>]}
  \cup {[status |-> s, kind |-> "parse", bitrate |-> 0, size |-> <<>>] : s \in Statuses \ {OkStatus}}
  \cup {[status |-> OkStatus, kind |-> "parse", bitrate |-> 0, size |-> <<>>]}
  \cup {[status |-> OkStatus, kind |-> "data", bitrate |-> b, size |-> SizeOf(b)] : b \in PageBitrates}

\* types.Obj(bitrate = 0, size = (0, "")), the initial value of data
Placeholder == [bitrate |-> 0, size |-> <<0, "">>]

\* None, where a metadata record or a size is expected
NoInfo == [bitrate |-> NoValue, size |-> <<>>]

\* ------------------------------------------------------------- exceptions
\* classes caught by "except Exception"
ExceptionClasses == {"HTTPError", "ConnectionError", "JSONDecodeError", "KeyError"}

\* SIGINT makes the handler of cli() call sys.exit(130): SystemExit
InterruptCode == 130

VARIABLES
  command, flags, tracks, argDuration,         \* the command line
  pc, exitCode, modules, idx,                  \* main; exitCode is the exit
                                               \* status once pc = "exited"
  interrupted,                                 \* sigint() has run
  tpc, duration, pagesSeen, pageDuration,      \* slizzy, the current track
  invoked,
  slider_downloads, mp3co_downloads, zippy_downloads,
  counts, downloads, handed, messages, filteredLog, sliderError,
  spc, exc, requests, transients, lastResp,    \* slider, the current call
  entries, data, infoRequests, normed

mainVars   == <<pc, exitCode, modules, idx>>
argvVars   == <<command, flags, tracks, argDuration>>
trackVars  == <<tpc, duration, pagesSeen, pageDuration, invoked,
                slider_downloads,
                mp3co_downloads, zippy_downloads, counts, downloads, handed,
                messages, filteredLog, sliderError>>
sliderVars == <<spc, exc, requests, transients, lastResp, entries, data,
                infoRequests, normed>>
vars == <<argvVars, mainVars, interrupted, trackVars, sliderVars>>

\* the locals of slizzy() and the log of the track, before a call
NoTrack ==
  /\ tpc = "idle" /\ duration = 0 /\ pagesSeen = 0 /\ invoked = {}
  /\ pageDuration = NoValue
  /\ slider_downloads = <<>> /\ mp3co_downloads = <<>> /\ zippy_downloads = <<>>
  /\ counts = <<>> /\ downloads = <<>> /\ handed = <<>> /\ messages = {}
  /\ filteredLog = <<>> /\ sliderError = "none"

\* the locals of slider() and of the functions it calls, before a call
NoSlider ==
  /\ spc = "idle" /\ exc = "none" /\ requests = 0 /\ transients = 0
  /\ lastResp = NoResponse /\ entries = <<>> /\ data = Placeholder
  /\ infoRequests = 0 /\ normed = <<>>

\* the locals of fetch, fetch_info and normalize are gone
DropFetch ==
  /\ requests' = 0 /\ transients' = 0 /\ lastResp' = NoResponse
  /\ entries' = <<>> /\ data' = Placeholder /\ infoRequests' = 0
  /\ normed' = <<>>

\* slider() is left: its locals are gone
DropSlider ==
  /\ spc' = "idle" /\ exc' = "none"
  /\ DropFetch

\* slizzy() is left by an exception: its locals are gone
DropTrack ==
  /\ tpc' = "idle" /\ duration' = 0 /\ pagesSeen' = 0 /\ invoked' = {}
  /\ pageDuration' = NoValue
  /\ slider_downloads' = <<>> /\ mp3co_downloads' = <<>>
  /\ zippy_downloads' = <<>> /\ counts' = <<>> /\ downloads' = <<>>
  /\ handed' = <<>> /\ messages' = {} /\ filteredLog' = <<>>
  /\ sliderError' = "none"

Init ==
  /\ command \in {"dl", "lns"}
  /\ flags \in FlagLists
  /\ tracks \in TrackLists
  /\ argDuration \in ArgDurations
  /\ pc = "parse_args" /\ exitCode = 0 /\ modules = {} /\ idx = 0
  /\ interrupted = FALSE
  /\ NoTrack
  /\ NoSlider

\* sys.exit(code), or the interpreter ending on an exception that nothing
\* catches: the process is gone, and its frames with it
Exit(code) ==
  /\ pc' = "exited" /\ exitCode' = code
  /\ DropTrack /\ DropSlider
  /\ UNCHANGED <<argvVars, modules, idx>>

\* variant of MainExitCode without the "except config.ConfigError" of main
MainExitCodeUncaught(e) == IF e = "SystemExit" THEN InterruptCode ELSE 1

\* exit status of an exception that leaves slizzy(): main catches
\* ConfigError and exits with 2, SystemExit carries its code, anything else
\* ends the interpreter with a traceback
MainExitCode(e) ==
  IF e = "ConfigError" THEN 2
  ELSE IF e = "SystemExit" THEN InterruptCode
  ELSE 1

\* ------------------------------------------------------------ parse_args
parse_args ==
  /\ pc = "parse_args"
  /\ UNCHANGED interrupted
  /\ IF argDuration # "absent" /\ Len(tracks) > 1 THEN Exit(1)
     ELSE IF argDuration = "invalid" THEN Exit(1)
     ELSE /\ pc' = "construct"
          /\ UNCHANGED <<argvVars, exitCode, modules, idx, trackVars,
                         sliderVars>>

\* ------------------------------------------------------------------ main
\* variant of EnabledModules without the "or all_modules" default
EnabledModulesNoDefault(f) == Range(f)

\* the set comprehension over the three flags, "or all_modules"
EnabledModules(f) == IF Range(f) = {} THEN all_modules ELSE Range(f)

\* variant of ConstructFails that constructs the first track only
ConstructFailsFirstOnly(ts) == ~ts[1]

\* the loop over args.tracks: Track() of an unparsable text raises, the bare
\* except prints the error and exits
ConstructFails(ts) == \E i \in 1..Len(ts) : ~ts[i]

\* the loop over args.tracks, then the module set is computed
main_construct ==
  /\ pc = "construct"
  /\ UNCHANGED interrupted
  /\ IF ConstructFails(tracks)
       THEN Exit(1)
       ELSE /\ pc' = "run"
            /\ modules' = EnabledModules(flags)
            /\ UNCHANGED <<argvVars, exitCode, idx, trackVars, sliderVars>>

\* variant of HasDuration that skips the resolution
HasDurationAlways(d) == TRUE

\* "if not track.duration": None and 0 are both "not supplied"
HasDuration(d) == d # 0

\* main calls slizzy(track, ...) for the next track; slizzy logs its header
\* and tests track.duration
main_call_slizzy ==
  /\ pc = "run" /\ tpc \in {"idle", "returned"} /\ idx < Len(tracks)
  /\ UNCHANGED interrupted
  /\ idx' = idx + 1
  /\ IF argDuration = "given" THEN duration' \in GivenDurations
                              ELSE duration' = 0
  /\ tpc' = IF HasDuration(duration') THEN "slider" ELSE "duration"
  /\ pagesSeen' = 0 /\ pageDuration' = NoValue /\ invoked' = {}
  /\ slider_downloads' = <<>> /\ mp3co_downloads' = <<>>
  /\ zippy_downloads' = <<>> /\ counts' = <<>> /\ downloads' = <<>>
  /\ handed' = <<>> /\ messages' = {} /\ filteredLog' = <<>>
  /\ sliderError' = "none"
  /\ UNCHANGED <<argvVars, pc, exitCode, modules, sliderVars>>

\* the for loop of main is exhausted: main and cli return, exit status 0
main_finish ==
  /\ pc = "run" /\ tpc = "returned" /\ idx = Len(tracks)
  /\ UNCHANGED interrupted
  /\ Exit(0)

\* ---------------------------------------------------------------- slizzy
\* slizzy() returns to main
Return == tpc' = "returned"

\* variant of slizzy_resolve_page that goes through every page and keeps
\* the last duration found
slizzy_resolve_page_last(d) ==
  /\ pc = "run" /\ tpc = "duration" /\ pagesSeen < MaxPages
  /\ UNCHANGED interrupted
  /\ pagesSeen' = pagesSeen + 1
  /\ pageDuration' = d
  /\ duration' = IF d # 0 THEN d ELSE duration
  /\ tpc' = IF pagesSeen' = MaxPages /\ duration' # 0 THEN "slider" ELSE tpc
  /\ UNCHANGED <<argvVars, mainVars, invoked, slider_downloads,
                 mp3co_downloads, zippy_downloads, counts, downloads, handed,
                 messages, filteredLog, sliderError, sliderVars>>

\* one page of google(track, beatport.domain), beatport.get_metadata gives
\* d (0: no duration in this page); next() stops at the first usable one
slizzy_resolve_page(d) ==
  /\ pc = "run" /\ tpc = "duration" /\ pagesSeen < MaxPages
  /\ UNCHANGED interrupted
  /\ pagesSeen' = pagesSeen + 1
  /\ pageDuration' = d
  /\ IF d # 0 THEN duration' = d /\ tpc' = "slider"
              ELSE duration' = duration /\ tpc' = tpc
  /\ UNCHANGED <<argvVars, mainVars, invoked, slider_downloads,
                 mp3co_downloads, zippy_downloads, counts, downloads, handed,
                 messages, filteredLog, sliderError, sliderVars>>

\* variant of ResolveCatches with the wrong class in the except clause
ResolveCatchesConfigError(e) == e = "ConfigError"

\* "except StopIteration": the class the handler of slizzy() catches
ResolveCatches(e) == e = "StopIteration"

\* exception e is raised inside the try block of slizzy(): the handler logs
\* the error and slizzy() returns, or e leaves slizzy() and reaches main
ResolveRaise(e) ==
  /\ pc = "run" /\ tpc = "duration"
  /\ UNCHANGED interrupted
  /\ IF ResolveCatches(e)
       THEN /\ messages' = messages \cup {"Track duration unavailable"}
            /\ Return
            /\ UNCHANGED <<argvVars, mainVars, duration, pagesSeen, pageDuration, invoked,
                           slider_downloads, mp3co_downloads, zippy_downloads,
                           counts, downloads, handed, filteredLog, sliderError,
                           sliderVars>>
       ELSE Exit(MainExitCode(e))

\* the pages are exhausted and none gave a duration: next() raises
\* StopIteration
slizzy_resolve_exhausted == ResolveRaise("StopIteration")

\* the search collaborator raises ConfigError
slizzy_resolve_config_error == ResolveRaise("ConfigError")

\* ---------------------------------------------------------------- slider
TrackTitle == "Artist - Title"

\* "if module.slider in modules": call slider(track), which logs and enters
\* fetch; otherwise slider_downloads = []
slizzy_slider ==
  /\ pc = "run" /\ tpc = "slider" /\ spc = "idle"
  /\ UNCHANGED interrupted
  /\ IF "slider" \in modules
       THEN /\ spc' = "fetch" /\ invoked' = invoked \cup {"slider"}
            /\ UNCHANGED <<tpc, slider_downloads>>
       ELSE /\ slider_downloads' = <<>> /\ tpc' = "mp3co"
            /\ UNCHANGED <<spc, invoked>>
  /\ pagesSeen' = 0 /\ pageDuration' = NoValue
  /\ UNCHANGED <<argvVars, mainVars, duration, mp3co_downloads,
                 zippy_downloads, counts, downloads, handed, messages,
                 filteredLog, sliderError, exc, requests, transients,
                 lastResp, entries, data, infoRequests, normed>>

\* variant of PermanentError that fails on server errors only
PermanentErrorServerOnly(status) == status >= 500

\* "if page.status_code != 200" of fetch
PermanentError(status) == status # OkStatus

\* variant of IsTransient that also retries a result without records
IsTransientOrEmpty(resp) ==
  resp.kind = "int" \/ (resp.kind = "audios" /\ resp.recs = <<>>)

\* "while isinstance(raw_entries, int)", raw_entries the decoded body
IsTransient(resp) == resp.kind = "int"

\* the list comprehension of fetch: one entry per record, in order
BuildEntries(recs) ==
  [i \in 1..Len(recs) |->
     [id |-> i, duration |-> recs[i].duration, title |-> recs[i].tit_art]]

\* variant of FetchStep that requests again when the body is not JSON
FetchStepRetriesInvalid(resp) ==
  IF resp.kind = "neterr"
    THEN [act |-> "raise", exc |-> "ConnectionError", entries |-> <<>>]
  ELSE IF PermanentError(resp.status)
    THEN [act |-> "raise", exc |-> "HTTPError", entries |-> <<>>]
  ELSE IF resp.kind = "invalid" \/ IsTransient(resp)
    THEN [act |-> "retry", exc |-> "none", entries |-> <<>>]
  ELSE IF resp.kind = "missing"
    THEN [act |-> "raise", exc |-> "KeyError", entries |-> <<>>]
  ELSE [act |-> "return", exc |-> "none", entries |-> BuildEntries(resp.recs)]

\* one pass of the loop of fetch on response resp, and what follows the loop
FetchStep(resp) ==
  IF resp.kind = "neterr"
    THEN [act |-> "raise", exc |-> "ConnectionError", entries |-> <<>>]
  ELSE IF PermanentError(resp.status)
    THEN [act |-> "raise", exc |-> "HTTPError", entries |-> <<>>]
  ELSE IF resp.kind = "invalid"
    THEN [act |-> "raise", exc |-> "JSONDecodeError", entries |-> <<>>]
  ELSE IF IsTransient(resp)
    THEN [act |-> "retry", exc |-> "none", entries |-> <<>>]
  ELSE IF resp.kind = "missing"
    THEN [act |-> "raise", exc |-> "KeyError", entries |-> <<>>]
  ELSE [act |-> "return", exc |-> "none", entries |-> BuildEntries(resp.recs)]

\* fetch: one request and its response
slider_fetch(resp) ==
  /\ pc = "run" /\ tpc = "slider" /\ spc = "fetch"
  /\ UNCHANGED interrupted
  /\ requests < MaxAttempts
  /\ requests' = requests + 1
  /\ lastResp' = resp
  /\ LET r == FetchStep(resp) IN
       /\ transients' = IF r.act = "retry" THEN transients + 1 ELSE transients
       /\ entries' = r.entries
       /\ exc' = r.exc
       /\ spc' = CASE r.act = "retry"  -> "fetch"
                   [] r.act = "raise"  -> "raised"
                   [] r.act = "return" ->
                        IF r.entries = <<>> THEN "select" ELSE "normalize"
  /\ UNCHANGED <<argvVars, mainVars, tpc, duration, pagesSeen, pageDuration, invoked,
                 slider_downloads, mp3co_downloads, zippy_downloads, counts,
                 downloads, handed, messages, filteredLog, sliderError, data, infoRequests, normed>>

\* "if page.status_code != 200" of fetch_info
InfoFailed(status) == status # OkStatus

\* variant of InfoStep that raises on a status other than 200, as fetch does
InfoStepRaisesOnStatus(resp) ==
  IF resp.kind = "neterr"
    THEN [act |-> "raise", exc |-> "ConnectionError", info |-> NoInfo]
  ELSE IF InfoFailed(resp.status)
    THEN [act |-> "raise", exc |-> "HTTPError", info |-> NoInfo]
  ELSE IF resp.kind = "parse"
    THEN [act |-> "return", exc |-> "none", info |-> NoInfo]
  ELSE IF resp.bitrate = 0
    THEN [act |-> "retry", exc |-> "none",
          info |-> [bitrate |-> resp.bitrate, size |-> resp.size]]
  ELSE [act |-> "return", exc |-> "none",
        info |-> [bitrate |-> resp.bitrate, size |-> resp.size]]

\* variant of InfoStep with "if" in place of "while": a bitrate of 0 is
\* returned as it came
InfoStepNoRetry(resp) ==
  IF resp.kind = "neterr"
    THEN [act |-> "raise", exc |-> "ConnectionError", info |-> NoInfo]
  ELSE IF InfoFailed(resp.status)
    THEN [act |-> "return", exc |-> "none", info |-> NoInfo]
  ELSE IF resp.kind = "parse"
    THEN [act |-> "return", exc |-> "none", info |-> NoInfo]
  ELSE [act |-> "return", exc |-> "none",
        info |-> [bitrate |-> resp.bitrate, size |-> resp.size]]

\* variant of InfoStep that reads the bitrate only and keeps the initial
\* size
InfoStepBitrateOnly(resp) ==
  IF resp.kind = "neterr"
    THEN [act |-> "raise", exc |-> "ConnectionError", info |-> NoInfo]
  ELSE IF InfoFailed(resp.status)
    THEN [act |-> "return", exc |-> "none", info |-> NoInfo]
  ELSE IF resp.kind = "parse"
    THEN [act |-> "return", exc |-> "none", info |-> NoInfo]
  ELSE IF resp.bitrate = 0
    THEN [act |-> "retry", exc |-> "none",
          info |-> [bitrate |-> resp.bitrate, size |-> Placeholder.size]]
  ELSE [act |-> "return", exc |-> "none",
        info |-> [bitrate |-> resp.bitrate, size |-> Placeholder.size]]

\* one pass of the loop of fetch_info on response resp
InfoStep(resp) ==
  IF resp.kind = "neterr"
    THEN [act |-> "raise", exc |-> "ConnectionError", info |-> NoInfo]
  ELSE IF InfoFailed(resp.status)
    THEN [act |-> "return", exc |-> "none", info |-> NoInfo]
  ELSE IF resp.kind = "parse"
    THEN [act |-> "return", exc |-> "none", info |-> NoInfo]
  ELSE IF resp.bitrate = 0
    THEN [act |-> "retry", exc |-> "none",
          info |-> [bitrate |-> resp.bitrate, size |-> resp.size]]
  ELSE [act |-> "return", exc |-> "none",
        info |-> [bitrate |-> resp.bitrate, size |-> resp.size]]

\* norm(e): "info and info.bitrate", "info and info.size"
Norm(e, info) ==
  [id |-> e.id, title |-> e.title, duration |-> e.duration,
   bitrate |-> info.bitrate, size |-> info.size,
   download |-> [site |-> "slider", id |-> e.id]]

\* normalize: one request of fetch_info for the next entry, and its response
slider_info(resp) ==
  /\ pc = "run" /\ tpc = "slider" /\ spc = "normalize"
  /\ UNCHANGED interrupted
  /\ infoRequests < MaxAttempts
  /\ lastResp' = resp
  /\ requests' = 0 /\ transients' = 0
  /\ LET r == InfoStep(resp)
         e == entries[Len(normed) + 1]
     IN
       /\ exc' = r.exc
       /\ infoRequests' = IF r.act = "retry" THEN infoRequests + 1 ELSE 0
       /\ data' = IF r.act = "retry" THEN r.info ELSE Placeholder
       /\ normed' = IF r.act = "return" THEN Append(normed, Norm(e, r.info))
                                        ELSE normed
       /\ spc' = CASE r.act = "retry"  -> "normalize"
                   [] r.act = "raise"  -> "raised"
                   [] r.act = "return" ->
                        IF Len(normed') = Len(entries) THEN "select"
                                                       ELSE "normalize"
  /\ UNCHANGED <<argvVars, mainVars, tpc, duration, pagesSeen, pageDuration, invoked,
                 slider_downloads, mp3co_downloads, zippy_downloads, counts,
                 downloads, handed, messages, filteredLog, sliderError, entries>>

\* tolerance.duration(d): the window of accepted durations around d
DurationWindow == 5
DurationTolerance(d) == (d - DurationWindow)..(d + DurationWindow)

\* tolerance.bitrate: the accepted bitrates
MinBitrate == 128
BitrateTolerance == {b \in Bitrates : b >= MinBitrate}

\* string.fuzz_match(a, b): similarity score of two titles, 0..100
FuzzMatch(a, b) == IF a = b THEN 100 ELSE 20

\* cfg.fuzz_threshold
fuzz_threshold == 60

\* truth value of a size: None is false, a tuple of two members is true
SizeTruthy(size) == size # <<>>

\* variant of PassesTolerance that tests the duration only
PassesToleranceDurationOnly(e, d) == e.duration \in DurationTolerance(d)

\* the generator expression of select: duration, then size and bitrate
PassesTolerance(e, d) ==
  /\ e.duration \in DurationTolerance(d)
  /\ SizeTruthy(e.size)
  /\ e.bitrate \in BitrateTolerance

\* the predicate handed to iterator.partition
PassesName(e) == FuzzMatch(e.title, TrackTitle) > fuzz_threshold

\* the members of s that are in keep, in the order of s
RECURSIVE KeepSeq(_, _)
KeepSeq(s, keep) ==
  IF s = <<>> THEN <<>>
  ELSE IF Head(s) \in keep THEN <<Head(s)>> \o KeepSeq(Tail(s), keep)
       ELSE KeepSeq(Tail(s), keep)

\* iterator.partition(pred, entries) with pred the name test: the entries
\* that pass, and the others
PartitionByName(es) ==
  [selected |-> KeepSeq(es, {e \in Range(es) : PassesName(e)}),
   filtered |-> KeepSeq(es, {e \in Range(es) : ~PassesName(e)})]

\* variant of Select that compares the titles first and applies the
\* duration, size and bitrate tests to the entries that passed by name
SelectNameFirst(es, d) ==
  LET p == PartitionByName(es) IN
    [selected |-> KeepSeq(p.selected,
                          {e \in Range(p.selected) : PassesTolerance(e, d)}),
     filtered |-> p.filtered]

\* select(entries, track): the entries it returns and those filtered by name
Select(es, d) ==
  PartitionByName(KeepSeq(es, {e \in Range(es) : PassesTolerance(e, d)}))

\* the list comprehension of slider(): Download(name, link) of each entry
Project(es) ==
  [i \in 1..Len(es) |-> [name |-> es[i].title, link |-> es[i].download]]

\* the titles listed by the "Filtered n entries by name" message
FilteredTitles(es) == [i \in 1..Len(es) |-> es[i].title]

\* select with its log messages, then slider() returns the projected list;
\* finally: logger.finish()
slider_select ==
  /\ pc = "run" /\ tpc = "slider" /\ spc = "select"
  /\ UNCHANGED interrupted
  /\ LET r == Select(normed, duration) IN
       /\ slider_downloads' = Project(r.selected)
       /\ filteredLog' = FilteredTitles(r.filtered)
       /\ messages' = messages \cup {"Selected"}
                        \cup (IF r.filtered # <<>> THEN {"Filtered by name"} ELSE {})
  /\ tpc' = "mp3co"
  /\ DropSlider
  /\ UNCHANGED <<argvVars, mainVars, duration, pagesSeen, pageDuration, invoked,
                 mp3co_downloads, zippy_downloads, counts, downloads, handed,
                 sliderError>>

\* variant of SliderCatches with "except requests.exceptions.HTTPError"
SliderCatchesHTTPOnly(e) == e = "HTTPError"

\* variant of SliderCatches with a bare "except:"
SliderCatchesAll(e) == TRUE

\* "except Exception as e": the classes the handler of slider() catches
SliderCatches(e) == e \in ExceptionClasses

\* an exception leaves fetch, normalize or select: the handler logs it and
\* slider() returns [], or the exception leaves slider() and slizzy() and
\* reaches main
slider_except ==
  /\ pc = "run" /\ tpc = "slider" /\ spc = "raised"
  /\ UNCHANGED interrupted
  /\ IF SliderCatches(exc)
       THEN /\ messages' = messages \cup {"Slider failed"}
            /\ sliderError' = exc
            /\ slider_downloads' = <<>>
            /\ tpc' = "mp3co"
            /\ DropSlider
            /\ UNCHANGED <<argvVars, mainVars, duration, pagesSeen, pageDuration, invoked,
                           mp3co_downloads, zippy_downloads, counts,
                           downloads, handed, filteredLog>>
       ELSE Exit(MainExitCode(exc))

\* ----------------------------------------------------------------- mp3co
Mp3coDownload(i) == [name |-> TrackTitle, link |-> [site |-> "mp3co", id |-> i]]

\* the lists mp3co(track) may return; [] also when it failed inside
Mp3coResults == {[i \in 1..n |-> Mp3coDownload(i)] : n \in 0..MaxMp3co}

\* "if module.mp3co in modules": mp3co_downloads = mp3co(track), else []
slizzy_mp3co(result) ==
  /\ pc = "run" /\ tpc = "mp3co"
  /\ UNCHANGED interrupted
  /\ IF "mp3co" \in modules
       THEN mp3co_downloads' = result /\ invoked' = invoked \cup {"mp3co"}
       ELSE mp3co_downloads' = <<>> /\ invoked' = invoked
  /\ tpc' = "zippy"
  /\ UNCHANGED <<argvVars, mainVars, duration, pagesSeen, pageDuration,
                 slider_downloads, zippy_downloads, counts, downloads, handed,
                 messages, filteredLog, sliderError, sliderVars>>

\* ----------------------------------------------------------------- zippy
ZippyDownload(i) == [name |-> TrackTitle, link |-> [site |-> "zippy", id |-> i]]

\* "if module.zippy in modules": start the search, else zippy_downloads = []
slizzy_zippy ==
  /\ pc = "run" /\ tpc = "zippy"
  /\ UNCHANGED interrupted
  /\ IF "zippy" \in modules
       THEN tpc' = "zippy_pages" /\ invoked' = invoked \cup {"zippy"}
       ELSE tpc' = "report" /\ invoked' = invoked
  /\ zippy_downloads' = <<>>
  /\ pagesSeen' = 0
  /\ UNCHANGED <<argvVars, mainVars, duration, pageDuration, slider_downloads,
                 mp3co_downloads, counts, downloads, handed, messages, filteredLog, sliderError,
                 sliderVars>>

\* one page of google(track, zippy.domain); zippy.get_download gives a
\* download (found) or nothing, "if dl" keeps the downloads
slizzy_zippy_page(found) ==
  /\ pc = "run" /\ tpc = "zippy_pages" /\ pagesSeen < MaxPages
  /\ UNCHANGED interrupted
  /\ pagesSeen' = pagesSeen + 1
  /\ zippy_downloads' = IF found
                          THEN Append(zippy_downloads, ZippyDownload(pagesSeen'))
                          ELSE zippy_downloads
  /\ UNCHANGED <<argvVars, mainVars, tpc, duration, pageDuration, invoked,
                 slider_downloads, mp3co_downloads, counts, downloads, handed,
                 messages, filteredLog, sliderError, sliderVars>>

\* the pages are exhausted: the list comprehension is complete
slizzy_zippy_exhausted ==
  /\ pc = "run" /\ tpc = "zippy_pages"
  /\ UNCHANGED interrupted
  /\ tpc' = "report"
  /\ UNCHANGED <<argvVars, mainVars, duration, pagesSeen, pageDuration, invoked,
                 slider_downloads, mp3co_downloads, zippy_downloads, counts,
                 downloads, handed, messages, filteredLog, sliderError, sliderVars>>

\* the search collaborator raises ConfigError, which reaches main
slizzy_zippy_config_error ==
  /\ pc = "run" /\ tpc = "zippy_pages"
  /\ UNCHANGED interrupted
  /\ Exit(MainExitCode("ConfigError"))

\* ------------------------------------------------- counts, aggregate, sink
\* variant of Aggregate that gives up when slider found nothing
AggregateUnlessSliderEmpty(s, m, z) == IF s = <<>> THEN <<>> ELSE s \o m \o z

\* variant of Aggregate that adds the lists in the opposite order
AggregateReversed(s, m, z) == z \o m \o s

\* "downloads = slider_downloads + mp3co_downloads + zippy_downloads"
Aggregate(s, m, z) == s \o m \o z

\* variant of Counts that skips the messages when nothing was selected
CountsUnlessEmpty(s, m, z) ==
  IF s \o m \o z = <<>> THEN <<>> ELSE <<Len(s), Len(m), Len(z)>>

\* the numbers of the three "Selected n ... entries" messages
Counts(s, m, z) == <<Len(s), Len(m), Len(z)>>

\* variant of NothingToDo without the early return
NothingToDoNever(dl) == FALSE

\* "if not downloads"
NothingToDo(dl) == dl = <<>>

\* the three "Selected n ... entries" messages, the aggregate, and
\* "if not downloads": "No entries to download.", return
slizzy_report ==
  /\ pc = "run" /\ tpc = "report"
  /\ UNCHANGED interrupted
  /\ counts' = Counts(slider_downloads, mp3co_downloads, zippy_downloads)
  /\ downloads' = Aggregate(slider_downloads, mp3co_downloads, zippy_downloads)
  /\ IF NothingToDo(downloads')
       THEN /\ messages' = messages \cup {"No entries to download."}
            /\ Return
       ELSE /\ tpc' = "deliver"
            /\ UNCHANGED messages
  /\ UNCHANGED <<argvVars, mainVars, duration,
                 pagesSeen, pageDuration, invoked, slider_downloads, mp3co_downloads,
                 zippy_downloads, handed, filteredLog, sliderError,
                 sliderVars>>

\* "if download_tracks": download(downloads), else the urls are logged;
\* then "Slizzied n files."
slizzy_deliver ==
  /\ pc = "run" /\ tpc = "deliver"
  /\ UNCHANGED interrupted
  /\ handed' = Append(handed,
                 [to   |-> IF command = "dl" THEN "download" ELSE "urls",
                  list |-> downloads])
  /\ messages' = messages \cup {"Slizzied"}
  /\ Return
  /\ UNCHANGED <<argvVars, mainVars, duration,
                 pagesSeen, pageDuration, invoked, slider_downloads, mp3co_downloads,
                 zippy_downloads, counts, downloads, filteredLog, sliderError,
                 sliderVars>>

\* ------------------------------------------------------------- interrupt
\* SIGINT: sigint() calls sys.exit(130), SystemExit is raised where the
\* program is. Inside slider() it meets the handler of slider() first; the
\* locals of fetch and normalize are gone. Inside Track() the bare except of
\* main catches it and exits with status 1. Elsewhere it reaches main.
interrupt ==
  /\ pc \in {"parse_args", "construct", "run"}
  /\ interrupted' = TRUE
  /\ IF pc = "run" /\ tpc = "slider" /\ spc # "idle"
       THEN /\ spc' = "raised" /\ exc' = "SystemExit"
            /\ DropFetch
            /\ UNCHANGED <<argvVars, mainVars, trackVars>>
     ELSE IF pc = "construct"
       THEN \E code \in {1, MainExitCode("SystemExit")} : Exit(code)
     ELSE Exit(MainExitCode("SystemExit"))

Next ==
  \/ parse_args
  \/ main_construct
  \/ main_call_slizzy
  \/ main_finish
  \/ \E d \in PageDurations : slizzy_resolve_page(d)
  \/ slizzy_resolve_exhausted
  \/ slizzy_resolve_config_error
  \/ slizzy_slider
  \/ \E resp \in FetchResponses : slider_fetch(resp)
  \/ \E resp \in InfoResponses : slider_info(resp)
  \/ slider_select
  \/ slider_except
  \/ \E result \in Mp3coResults : slizzy_mp3co(result)
  \/ slizzy_zippy
  \/ \E found \in BOOLEAN : slizzy_zippy_page(found)
  \/ slizzy_zippy_exhausted
  \/ slizzy_zippy_config_error
  \/ slizzy_report
  \/ slizzy_deliver
  \/ interrupt

Spec == Init /\ [][Next]_vars

\* ------------------------------------------- select, for every argument
\* titles of the candidates handed to select
SelectTitles == Titles \cup {"Other"}

\* the metadata values fetch_info constructs: None, the initial value of
\* data, and the record read from a response
InfoValues ==
  {NoInfo, Placeholder} \cup {[bitrate |-> b, size |-> SizeOf(b)] : b \in Bitrates}

\* what norm() makes of the record with id i
Candidates(i) ==
  {Norm([id |-> i, duration |-> d, title |-> t], info) :
     d \in Durations, t \in SelectTitles, info \in InfoValues}

\* the lists of n candidates, the record at position i with id i
RECURSIVE CandidateSeqs(_)
CandidateSeqs(n) ==
  IF n = 0 THEN {<<>>}
  ELSE {Append(c, e) : c \in CandidateSeqs(n - 1), e \in Candidates(n)}

\* the lists normalize() may hand to select
CandidateLists == UNION {CandidateSeqs(n) : n \in 0..MaxEntries}

\* slider(track) of a single track with a given duration is about to call
\* select on the candidates normed
SelectInit ==
  /\ command = "lns" /\ flags = <<>> /\ tracks = <<TRUE>>
  /\ argDuration = "given"
  /\ pc = "run" /\ exitCode = 0 /\ modules = all_modules /\ idx = 1
  /\ interrupted = FALSE
  /\ tpc = "slider" /\ duration \in GivenDurations /\ pagesSeen = 0
  /\ pageDuration = NoValue /\ invoked = {"slider"}
  /\ slider_downloads = <<>> /\ mp3co_downloads = <<>> /\ zippy_downloads = <<>>
  /\ counts = <<>> /\ downloads = <<>> /\ handed = <<>> /\ messages = {}
  /\ filteredLog = <<>> /\ sliderError = "none"
  /\ spc = "select" /\ exc = "none" /\ requests = 0 /\ transients = 0
  /\ lastResp = NoResponse /\ data = Placeholder /\ infoRequests = 0
  /\ normed \in CandidateLists
  /\ entries = [i \in 1..Len(normed) |->
                  [id |-> normed[i].id, duration |-> normed[i].duration,
                   title |-> normed[i].title]]

SelectNext == slider_select

SelectSpec == SelectInit /\ [][SelectNext]_vars

\* ================================================================ claims
\* how the call of slizzy() for the current track ended, read from its log
Aborted == "Track duration unavailable" \in messages

\* one request of fetch and its response
FetchRequestStep == tpc = "slider" /\ spc = "fetch" /\ requests' = requests + 1

\* the three lists of the current track have been counted and added
Aggregated == counts # <<>>

ListOf(m) ==
  CASE m = "slider" -> slider_downloads
    [] m = "mp3co"  -> mp3co_downloads
    [] m = "zippy"  -> zippy_downloads

RECURSIVE ConcatLists(_)
ConcatLists(order) ==
  IF order = <<>> THEN <<>>
  ELSE ListOf(Head(order)) \o ConcatLists(Tail(order))

\* C1: an exception of class Exception raised by fetch, normalize or select
\* never leaves slider(): the handler logs "Slider failed", slider() returns
\* the empty list and slizzy() goes on with the next adapter; no run ends
\* with the status of an uncaught exception.
C1_SliderAbsorbsFailure ==
  [][/\ (tpc = "slider" /\ spc = "raised" /\ exc # "SystemExit")
          => \/ interrupted' /\ ~interrupted
             \/ /\ pc' = "run" /\ tpc' = "mp3co" /\ spc' = "idle"
                /\ slider_downloads' = <<>>
                /\ "Slider failed" \in messages'
     /\ (pc = "run" /\ pc' = "exited" /\ ~interrupted')
          => exitCode' \in {0, 2}]_vars

C1_Witness ==
  /\ tpc = "mp3co" /\ sliderError = "KeyError"
  /\ slider_downloads = <<>> /\ "Slider failed" \in messages

\* C2: after n answers with status 200 and an integer body, an answer with
\* status 200 and a result body ends fetch: n + 1 requests were issued and
\* the entries are those of that last body, one per record, in order.
C2_FetchSuccessAfterTransients ==
  [][/\ (FetchRequestStep /\ lastResp'.status = 200 /\ lastResp'.kind = "int")
          => /\ spc' = "fetch"
             /\ transients' = transients + 1
     /\ (FetchRequestStep /\ lastResp'.status = 200 /\ lastResp'.kind = "audios")
          => /\ requests = transients
             /\ transients' = transients
             /\ requests' = transients' + 1
             /\ spc' \in {"normalize", "select"}
             /\ Len(entries') = Len(lastResp'.recs)
             /\ \A i \in 1..Len(entries') :
                  entries'[i] = [id       |-> i,
                                 duration |-> lastResp'.recs[i].duration,
                                 title    |-> lastResp'.recs[i].tit_art]]_vars

C2_Witness ==
  /\ tpc = "slider" /\ spc = "normalize"
  /\ transients >= 2 /\ requests = transients + 1
  /\ Len(entries) >= 2 /\ lastResp.kind = "audios"

\* C3: an answer with a status other than 200 makes fetch raise HTTPError at
\* once, on the first request or after transient answers; slider() issues no
\* request after it and is not entered again for the track.
C3_PermanentErrorNoRetry ==
  [][/\ (FetchRequestStep /\ lastResp'.kind # "neterr" /\ lastResp'.status # 200)
          => /\ spc' = "raised" /\ exc' = "HTTPError"
             /\ entries' = <<>>
     /\ (tpc = "slider" /\ spc = "raised")
          => /\ spc' \in {"raised", "idle"}
             /\ requests' \in {0, requests}
     /\ (tpc \notin {"duration", "slider"} /\ tpc' = "slider")
          => idx' = idx + 1]_vars

C3_Witness ==
  /\ tpc = "slider" /\ spc = "raised" /\ exc = "HTTPError"
  /\ lastResp.status = 404 /\ transients >= 1 /\ requests = transients + 1

\* C4: when the slider upstream answered with an error status, slider
\* contributes no download, every enabled adapter has still been invoked for
\* the track, and the aggregate is the mp3co list followed by the zippy list.
C4_AdapterIndependence ==
  /\ (sliderError = "HTTPError" /\ tpc \in {"report", "deliver", "returned"})
       => /\ slider_downloads = <<>>
          /\ modules \subseteq invoked
  /\ (sliderError = "HTTPError" /\ Aggregated)
       => /\ counts[1] = 0
          /\ downloads = mp3co_downloads \o zippy_downloads

C4_Witness ==
  /\ sliderError = "HTTPError" /\ tpc = "returned"
  /\ mp3co_downloads # <<>> /\ zippy_downloads # <<>>
  /\ Len(handed) = 1 /\ Len(handed[1].list) >= 2

\* C5: when the pages of the search are exhausted and none gave a duration,
\* slizzy() logs "Track duration unavailable" and returns: no adapter was
\* invoked, the duration is still unset, nothing was counted or handed over,
\* the exhaustion does not end the run, and main goes on with the next track
\* of the batch.
C5_DurationUnresolvableAbort ==
  [][/\ (tpc' = "returned" /\ Aborted')
          => /\ tpc = "duration"
             /\ invoked' = {} /\ duration' = 0
             /\ counts' = <<>> /\ handed' = <<>>
     /\ (tpc = "duration" /\ pc' = "exited" /\ ~interrupted') => exitCode' = 2
     /\ (tpc = "duration" /\ tpc' = "slider") => duration' # 0
     /\ (pc = "run" /\ tpc = "returned" /\ Aborted /\ idx < Len(tracks))
          => \/ pc' = "run" /\ idx' = idx + 1 /\ tpc' \in {"duration", "slider"}
             \/ pc' = "exited" /\ interrupted']_vars

C5_Witness ==
  /\ pc = "run" /\ tpc = "returned" /\ Aborted
  /\ idx = 1 /\ Len(tracks) = 2 /\ pagesSeen >= 2

\* C6 (as claimed): in a batch, an unparsable track aborts only that track
\* and every parsable track is processed.
C6_OnlyUnparsableTrackAborted ==
  (pc = "exited" /\ ~interrupted /\ exitCode \in {0, 1} /\ Len(tracks) > 1
     /\ argDuration = "absent")
    => idx = Cardinality({i \in 1..Len(tracks) : tracks[i]})

\* C6 (amended): an unparsable track text, in a batch or alone, ends the
\* whole invocation with exit status 1 before any track is processed.
C6_UnparsableTrackAbortsInvocation ==
  (\E i \in 1..Len(tracks) : ~tracks[i])
    => /\ pc # "run" /\ idx = 0 /\ tpc = "idle"
       /\ (pc = "exited" /\ ~interrupted) => exitCode = 1

C6_Witness ==
  /\ pc = "exited" /\ exitCode = 1 /\ ~interrupted /\ argDuration = "absent"
  /\ Len(tracks) > 1 /\ tracks[1] /\ ~tracks[2] /\ idx = 0

\* C7 (as claimed): the groups of the aggregate appear in the order in which
\* the caller enabled the adapters.
C7_GroupsInEnablementOrder ==
  Aggregated
    => downloads = ConcatLists(IF flags = <<>> THEN <<"slider", "mp3co", "zippy">>
                                               ELSE flags)

\* C7 (amended): the aggregate is the slider list, then the mp3co list, then
\* the zippy list, each in its own order and contiguous, whatever the order
\* in which the caller enabled the adapters; an adapter that is not enabled
\* contributes nothing.
C7_GroupsInFixedOrder ==
  Aggregated
    => /\ downloads = ConcatLists(<<"slider", "mp3co", "zippy">>)
       /\ \A i, j \in 1..Len(downloads) :
            (i < j /\ downloads[i].link.site = downloads[j].link.site)
              => \A k \in i..j : downloads[k].link.site = downloads[i].link.site
       /\ \A m \in {"slider", "mp3co", "zippy"} :
            (flags # <<>> /\ m \notin Range(flags)) => ListOf(m) = <<>>

C7_Witness ==
  /\ Aggregated /\ flags = <<"zippy", "slider">>
  /\ Len(slider_downloads) = 2 /\ Len(zippy_downloads) = 2
  /\ downloads[1].link.site = "slider" /\ downloads[4].link.site = "zippy"

\* C8: with no adapter flag the module set is all three adapters, and all
\* three have been invoked for every track that reaches the counts.
C8_DefaultAdapterSet ==
  flags = <<>>
    => /\ pc = "run" => modules = {"slider", "mp3co", "zippy"}
       /\ (tpc \in {"report", "deliver"} \/ (tpc = "returned" /\ Aggregated))
            => invoked = {"slider", "mp3co", "zippy"}

C8_Witness ==
  /\ flags = <<>> /\ tpc = "returned" /\ Aggregated
  /\ invoked = {"slider", "mp3co", "zippy"}
  /\ slider_downloads # <<>> /\ mp3co_downloads # <<>> /\ zippy_downloads # <<>>

\* C9: an empty aggregate is reported as "No entries to download." and
\* slizzy() returns without error and without handing anything over; a
\* non-empty aggregate is handed over exactly once for the track, whole (to
\* download() under "dl", to the url listing under "lns").
C9_EmptyAggregateOrOneHandover ==
  /\ Len(handed) <= 1
  /\ handed # <<>> => handed[1].list # <<>>
  /\ (tpc \in {"deliver", "returned"} /\ Aggregated /\ downloads = <<>>)
       => /\ tpc = "returned" /\ pc = "run"
          /\ handed = <<>>
          /\ "No entries to download." \in messages
  /\ (tpc = "returned" /\ downloads # <<>>)
       => /\ Len(handed) = 1
          /\ handed[1].list = slider_downloads \o mp3co_downloads \o zippy_downloads
          /\ handed[1].to = IF command = "dl" THEN "download" ELSE "urls"

C9_Witness ==
  /\ tpc = "returned" /\ counts = <<0, 0, 0>> /\ downloads = <<>>
  /\ invoked = {"slider", "mp3co", "zippy"}
  /\ "No entries to download." \in messages /\ handed = <<>>

\* C10 (as claimed): whatever the outcome of a track, its counts have been
\* reported when its processing ends.
C10_CountsAlwaysReported ==
  tpc = "returned" => counts # <<>>

\* C10 (amended): the three counts, zeros included, are reported for every
\* track that reaches the aggregation, before anything is handed over; a
\* track that ends on an unresolvable duration reports no counts.
C10_CountsReportedUnlessAborted ==
  /\ (tpc = "deliver" \/ (tpc = "returned" /\ ~Aborted))
       => counts = <<Len(slider_downloads), Len(mp3co_downloads),
                     Len(zippy_downloads)>>
  /\ (tpc = "returned" /\ Aborted) => counts = <<>>

C10_Witness ==
  /\ tpc = "returned" /\ idx = 2 /\ ~Aborted
  /\ counts = <<0, 0, 0>> /\ "No entries to download." \in messages

\* one request of fetch_info and its response
InfoRequestStep ==
  tpc = "slider" /\ spc = "normalize" /\ interrupted' = interrupted

\* select runs and slider() returns its list
SelectStep == tpc = "slider" /\ spc = "select" /\ tpc' = "mp3co"

\* the ids of the downloads slider() returned
ReturnedIds(dls) == {dls[i].link.id : i \in 1..Len(dls)}

\* C11: a metadata lookup that ends without metadata (a status other than
\* 200, or lines that do not parse) raises nothing: the record is normalized
\* with absent bitrate and size and the lookups go on with the next record;
\* select sees every record, never returns one without metadata, returns
\* every other record that passes the three tests, and slider() does not
\* fail.
C11_MetadataFailureDropsOneCandidate ==
  [][/\ (InfoRequestStep /\ lastResp'.kind # "neterr"
            /\ (lastResp'.status # 200 \/ lastResp'.kind = "parse"))
          => /\ exc' = "none" /\ entries' = entries
             /\ normed' = Append(normed, normed'[Len(normed')])
             /\ normed'[Len(normed')].id = entries[Len(normed')].id
             /\ normed'[Len(normed')].bitrate = NoValue
             /\ normed'[Len(normed')].size = <<>>
             /\ spc' = IF Len(normed') < Len(entries) THEN "normalize"
                                                      ELSE "select"
     /\ SelectStep
          => /\ Len(normed) = Len(entries)
             /\ "Slider failed" \notin messages' /\ sliderError' = "none"
             /\ \A i \in 1..Len(normed) :
                  /\ normed[i].size = <<>>
                       => normed[i].id \notin ReturnedIds(slider_downloads')
                  /\ (/\ normed[i].size # <<>>
                      /\ normed[i].bitrate >= 128
                      /\ normed[i].duration - duration \in -5..5
                      /\ normed[i].title = "Artist - Title")
                       => normed[i].id \in ReturnedIds(slider_downloads')]_vars

C11_Witness ==
  /\ tpc = "slider" /\ spc = "select" /\ Len(normed) = 2
  /\ normed[1].size = <<>> /\ normed[1].bitrate = NoValue
  /\ normed[1].duration = 178 /\ normed[1].title = "Artist - Title"
  /\ normed[2].bitrate = 320 /\ normed[2].duration = 178
  /\ normed[2].title = "Artist - Title"

\* metadata that is unknown: bitrate 0 or absent, size absent or (0, "")
UnknownMetadata(e) ==
  \/ e.bitrate \in {0, NoValue}
  \/ e.size \in {<<>>, <<0, "">>}

\* C12: whatever the duration and the title of a candidate, select does not
\* return it when its bitrate is 0 or absent or its size is absent or the
\* initial (0, "").
C12_UnknownMetadataRejected ==
  [][SelectStep
       => \A i \in 1..Len(normed) :
            UnknownMetadata(normed[i])
              => normed[i].id \notin ReturnedIds(slider_downloads')]_vars

C12_Witness ==
  /\ tpc = "mp3co" /\ spc = "idle" /\ "Selected" \in messages
  /\ Len(slider_downloads) = 1 /\ slider_downloads[1].link.id = 2
  /\ filteredLog = <<>>

\* positions of the candidates that pass the duration, size and bitrate
\* tests for a track of duration d
PassingAt(es, d) ==
  {i \in 1..Len(es) : /\ es[i].duration - d \in -5..5
                       /\ es[i].size # <<>>
                       /\ es[i].bitrate >= 128}

\* the strictly increasing sequence of the positions in P
InOrder(P, n) ==
  CHOOSE f \in [1..Cardinality(P) -> 1..n] :
    /\ {f[k] : k \in 1..Cardinality(P)} = P
    /\ \A j, k \in 1..Cardinality(P) : j < k => f[j] < f[k]

\* C13: only candidates that passed the duration, size and bitrate tests
\* are compared by title; each of them is either returned (title matches) or
\* listed as filtered by name (title does not match), never both, never
\* neither; both groups keep the order of the input.
C13_FilterOrder ==
  [][SelectStep
       => LET pass == PassingAt(normed, duration)
              sel  == {i \in pass : normed[i].title = "Artist - Title"}
              fil  == pass \ sel
              s    == InOrder(sel, Len(normed))
              f    == InOrder(fil, Len(normed))
          IN  /\ Len(slider_downloads') = Cardinality(sel)
              /\ \A k \in 1..Cardinality(sel) :
                   /\ slider_downloads'[k].link.id = normed[s[k]].id
                   /\ slider_downloads'[k].name = normed[s[k]].title
              /\ Len(filteredLog') = Cardinality(fil)
              /\ \A k \in 1..Cardinality(fil) :
                   filteredLog'[k] = normed[f[k]].title
              /\ ("Filtered by name" \in messages') = (fil # {})
              /\ "Selected" \in messages']_vars

C13_Witness ==
  /\ tpc = "mp3co" /\ spc = "idle"
  /\ Len(slider_downloads) = 1 /\ slider_downloads[1].link.id = 2
  /\ filteredLog = <<"Other">>
  /\ {"Selected", "Filtered by name"} \subseteq messages

\* C14 (as claimed): a response with status 200 and a body that does not
\* parse makes fetch, and fetch_info, request again.
C14_StructuralProblemRetried ==
  [][/\ (FetchRequestStep /\ lastResp'.status = 200 /\ lastResp'.kind = "invalid")
          => spc' = "fetch"
     /\ (InfoRequestStep /\ lastResp'.status = 200 /\ lastResp'.kind = "parse")
          => spc' = "normalize" /\ normed' = normed]_vars

\* C14 (amended): a response with status 200 and a body that does not parse
\* ends the call: fetch raises (JSONDecodeError, or KeyError for a missing
\* field) and fetch_info returns no metadata for the record; a request is
\* repeated only after status 200 with an integer body (fetch) or with a
\* bitrate of 0 (fetch_info).
C14_StructuralProblemEndsCall ==
  [][/\ (FetchRequestStep /\ lastResp'.status = 200 /\ lastResp'.kind = "invalid")
          => spc' = "raised" /\ exc' = "JSONDecodeError"
     /\ (FetchRequestStep /\ lastResp'.status = 200 /\ lastResp'.kind = "missing")
          => spc' = "raised" /\ exc' = "KeyError"
     /\ (InfoRequestStep /\ lastResp'.status = 200 /\ lastResp'.kind = "parse")
          => /\ Len(normed') = Len(normed) + 1
             /\ normed'[Len(normed')].bitrate = NoValue
             /\ normed'[Len(normed')].size = <<>>
             /\ infoRequests' = 0 /\ exc' = "none"
     /\ (FetchRequestStep /\ spc' = "fetch")
          => lastResp'.status = 200 /\ lastResp'.kind = "int"
     /\ (InfoRequestStep /\ spc' = "normalize" /\ normed' = normed)
          => /\ lastResp'.status = 200 /\ lastResp'.kind = "data"
             /\ lastResp'.bitrate = 0]_vars

C14_Witness ==
  /\ tpc = "slider" /\ spc = "raised" /\ exc = "JSONDecodeError"
  /\ lastResp.status = 200 /\ lastResp.kind = "invalid"
  /\ transients >= 1 /\ requests = transients + 1

\* C15: while an adapter is invoked for a track, and until slizzy() ends,
\* track.duration is set; slizzy() writes it only during the resolution,
\* when it is unset and no adapter has been invoked, and the write ends the
\* resolution, so it happens at most once per track.
C15_DurationFixedBeforeAdapters ==
  [][/\ (tpc' \in {"slider", "mp3co", "zippy", "zippy_pages", "report", "deliver"}
            \/ invoked' # {})
          => duration' # 0
     /\ (pc' = "run" /\ idx' = idx /\ duration' # duration)
          => /\ tpc = "duration" /\ duration = 0 /\ invoked = {}
             /\ duration' # 0 /\ tpc' = "slider"
     /\ (pc' = "run" /\ idx' = idx /\ tpc # "duration")
          => duration' = duration /\ tpc' # "duration"]_vars

C15_Witness ==
  /\ argDuration = "absent" /\ tpc = "zippy_pages" /\ duration = 180
  /\ invoked = {"slider", "mp3co", "zippy"} /\ idx = 2

\* a response with status 200 and a transient body
TransientFetch(resp) == resp.status = 200 /\ resp.kind = "int"
TransientInfo(resp) ==
  resp.status = 200 /\ resp.kind = "data" /\ resp.bitrate = 0

\* C16: whatever the number of requests already issued, a response with
\* status 200 and a transient body (an integer for fetch, a bitrate of 0 for
\* fetch_info) leaves the loop running, and any other response ends it: the
\* loops have no cap and end exactly on a status other than 200, a parse
\* error or a usable body.
C16_UnboundedRetry ==
  [][/\ (FetchRequestStep /\ lastResp'.kind # "neterr")
          => /\ TransientFetch(lastResp')
                  => /\ spc' = "fetch" /\ exc' = "none"
                     /\ transients' = transients + 1
             /\ ~TransientFetch(lastResp') => spc' # "fetch"
     /\ (InfoRequestStep /\ lastResp'.kind # "neterr")
          => /\ TransientInfo(lastResp')
                  => /\ spc' = "normalize" /\ exc' = "none"
                     /\ normed' = normed
                     /\ infoRequests' = infoRequests + 1
             /\ ~TransientInfo(lastResp')
                  => /\ Len(normed') = Len(normed) + 1
                     /\ infoRequests' = 0]_vars

C16_Witness ==
  /\ tpc = "slider" /\ spc = "normalize"
  /\ infoRequests = MaxAttempts /\ data.bitrate = 0
  /\ lastResp.status = 200 /\ normed = <<>>

\* a document of the beatport search is consulted
ResolvePageStep == tpc = "duration" /\ pagesSeen' = pagesSeen + 1

\* C17: the documents of the search are consulted one after the other, only
\* while the track has no duration; the first document that yields a
\* duration sets track.duration to that duration and ends the resolution,
\* a document that yields none leaves the duration unset and the resolution
\* running; no document is consulted after the one that matched.
C17_FirstMatchResolution ==
  [][/\ ResolvePageStep
          => /\ duration = 0
             /\ pageDuration' # 0 => duration' = pageDuration' /\ tpc' = "slider"
             /\ pageDuration' = 0 => duration' = 0 /\ tpc' = "duration"
     /\ (pagesSeen' = pagesSeen + 1)
          => \/ tpc = "duration" /\ duration = 0
             \/ tpc = "zippy_pages"
     /\ (tpc = "duration" /\ tpc' = "slider")
          => /\ pagesSeen' = pagesSeen + 1
             /\ duration' = pageDuration' /\ duration' # 0]_vars

C17_Witness ==
  /\ pc = "run" /\ tpc = "slider" /\ spc = "idle"
  /\ pagesSeen = 2
  /\ pageDuration = 180 /\ duration = 180 /\ argDuration = "absent"

\* C18: the interrupt ends the run wherever it arrives: at once, or, inside
\* slider(), as a SystemExit that the handler of slider() does not catch;
\* after it no message "Slider failed" is logged, no adapter is invoked and
\* no track is started, and the exit status is that of the interrupt (1 when
\* it arrived inside Track()).
C18_InterruptEndsRun ==
  [][/\ (interrupted' /\ ~interrupted)
          => \/ /\ pc' = "exited"
                /\ exitCode' \in (IF pc = "construct" THEN {1, 130} ELSE {130})
             \/ /\ pc = "run" /\ tpc = "slider" /\ spc # "idle"
                /\ pc' = "run" /\ spc' = "raised" /\ exc' = "SystemExit"
                /\ UNCHANGED <<idx, invoked, messages, tpc>>
     /\ interrupted
          => /\ pc' = "exited" /\ exitCode' = 130
             /\ idx' = idx /\ invoked' \subseteq invoked
             /\ "Slider failed" \notin messages']_vars

C18_Witness ==
  /\ interrupted /\ pc = "run" /\ tpc = "slider" /\ spc = "raised"
  /\ exc = "SystemExit" /\ idx = 1 /\ Len(tracks) = 2

\* C19: a configuration error raised while track k is processed ends the
\* run with exit status 2, whatever the number of tracks left; the status 2
\* has no other cause, and nothing runs after the exit: no track after k is
\* processed.
C19_ConfigErrorStopsBatch ==
  [][/\ (pc = "run" /\ tpc \in {"duration", "zippy_pages"}
            /\ pc' = "exited" /\ ~interrupted')
          => exitCode' = 2 /\ idx' = idx
     /\ (pc' = "exited" /\ exitCode' = 2)
          => /\ pc = "run" /\ tpc \in {"duration", "zippy_pages"}
             /\ ~interrupted'
     /\ pc # "exited"]_vars

C19_Witness ==
  /\ pc = "exited" /\ exitCode = 2 /\ ~interrupted
  /\ idx = 1 /\ Len(tracks) = 2

\* fetch_info returns and norm() stores its result
InfoReturnStep == InfoRequestStep /\ Len(normed') = Len(normed) + 1

\* C20: what fetch_info returns is either None or the record read from the
\* response of its last request: a bitrate other than 0 and the size of
\* that same response, never the initial record (bitrate 0, size (0, "")),
\* never the size of an earlier response.
C20_FetchInfoResult ==
  [][InfoReturnStep
       => LET r == normed'[Len(normed')] IN
            \/ /\ r.bitrate = NoValue /\ r.size = <<>>
               /\ (lastResp'.status # 200 \/ lastResp'.kind = "parse")
            \/ /\ lastResp'.status = 200 /\ lastResp'.kind = "data"
               /\ r.bitrate # 0 /\ r.bitrate = lastResp'.bitrate
               /\ r.size = lastResp'.size
               /\ [bitrate |-> r.bitrate, size |-> r.size] # Placeholder
               /\ r.size # data.size]_vars

C20_Witness ==
  /\ tpc = "slider" /\ spc = "normalize" /\ Len(normed) = 1
  /\ normed[1].bitrate = 320 /\ normed[1].size = <<9, "Mb">>
  /\ lastResp.kind = "data" /\ lastResp.bitrate = 320
  /\ data = Placeholder /\ infoRequests = 0
====
